---- MODULE Spec2Model ----
(***************************************************************************)
(* NLSQLMCPServer (src/index.js): the Node.js supervisor of the Python     *)
(* NLSQL MCP server.  One supervisor process (one event loop), one         *)
(* NLSQLMCPServer instance.  Every action is one run-to-completion job of  *)
(* the event loop: an API call by the embedding caller, or the delivery of *)
(* one event (probe data/close/error, child close/error, a signal)         *)
(* together with the promise continuations it resumes.                     *)
(***************************************************************************)
EXTENDS Integers, Sequences, FiniteSets, TLC

\* ---------------------------------------------------------------- bounds
\* start() and checkPythonDependencies() invocations on the one instance
MaxStarts == 2
\* 'data' chunks per captured stream of one probe
MaxChunks == 1

\* ------------------------------------------------------- values of the code
\* this.process = null; also the pid getStatus reports without a handle
Null == 0
\* ChildProcess.pid of a child the OS never created
Undefined == -1
\* the close event's code of a child terminated by a signal (null)
NullCode == -2
\* the close event's code of a process that could not be spawned (-errno)
Enoent == -3

\* Mutant: the child's stdin is piped instead of inherited.
ChildStdio_Piped == <<"pipe", "inherit", "inherit">>

\* stdio option of the two spawns
ProbeStdio == <<"pipe", "pipe", "pipe">>
ChildStdio == <<"inherit", "inherit", "inherit">>

\* what the probe can write, chunk by chunk, to a captured stream
Tokens == {"DEPENDENCIES_OK", "MISSING_DEPENDENCY: X", "noise"}
\* exit codes of the probe and of the supervised child
ProbeCodes == {0, 1}
ChildCodes == {0, 1, 3, NullCode}
Signals == {"SIGINT", "SIGTERM"}

Invocations == 1..MaxStarts

VARIABLES
    cli,          \* bin/nlsql-mcp-server.js: the command line and the command's position
    setup,        \* scripts/install-deps.js: the script's position and its locals
    given,        \* the constructor's argument; each option absent <<>> or <<value>>
    processEnv,   \* process.env when the instance is constructed
    options,      \* this.options
    serverFile,   \* fs.existsSync(this.options.serverPath)
    process,      \* this.process: Null or the index of a ChildProcess in children
    children,     \* the ChildProcess objects created by start(), in order
    pc,           \* per invocation of start() or checkPythonDependencies(): idle,
                  \* awaitProbe, returned, failed; awaitCheck, checked
    probe,        \* per invocation: the probe process and its promise
    listeners,    \* process.on(sig, ...) listeners registered, per signal
    exited,       \* the supervisor process: "no", "exit" (process.exit), "signal"
    exitCode,     \* its exit status once exited = "exit"
    trace         \* history: every externally visible effect and event, in order

vars == <<cli, setup, given, processEnv, options, serverFile, process, children, pc, probe, listeners,
          exited, exitCode, trace>>

\* ------------------------------------------------------------- history
\* One entry of the history.  op: start, check, stop, return, spawn, on,
\* existsSync, stdout, stderr, kill, exit, event, resolve, reject.
Ev(op, inv, h, code, text, stdio) ==
    [op |-> op, inv |-> inv, h |-> h, code |-> code, text |-> text, stdio |-> stdio]

\* The entry of a spawn(command, args, {cwd, stdio, env}) call.  ok: 1 when the
\* OS creates the process, 0 when it does not.
SpawnEv(inv, h, ok, what, cwd, stdio, conf) ==
    [op |-> "spawn", inv |-> inv, h |-> h, code |-> ok, text |-> what, stdio |-> stdio,
     command |-> conf.pythonExecutable, cwd |-> cwd, env |-> conf.env]

Out(text, inv) == Ev("stdout", inv, Null, 0, text, <<>>)
Err(text, inv) == Ev("stderr", inv, Null, 0, text, <<>>)

\* String.prototype.includes on a text made of chunks
Includes(text, tok) == \E k \in 1..Len(text) : text[k] = tok

NoProbe == [state |-> "none", settled |-> "pending"]

\* ------------------------------------------------------------ constructor
\* new NLSQLMCPServer(): no option given
NoOptions ==
    [pythonExecutable |-> <<>>, serverPath |-> <<>>, cwd |-> <<>>, env |-> <<>>,
     debug |-> <<>>]

getPackageRoot == "__dirname/python-src"
getDefaultServerPath == "__dirname/python-src/nlsql_mcp_server/server.py"

\* option || fallback, for a string option and for a boolean option: an absent
\* option, the empty string and false are falsy
OrString(opt, fallback) ==
    IF opt = <<>> THEN fallback ELSE IF opt[1] = "" THEN fallback ELSE opt[1]
OrBoolean(opt, fallback) ==
    IF opt = <<>> THEN fallback ELSE IF opt[1] = FALSE THEN fallback ELSE opt[1]

\* Mutant: the process-wide value wins on a key collision.
Merge_FirstWins(a, b) ==
    [k \in DOMAIN a \cup DOMAIN b |-> IF k \in DOMAIN a THEN a[k] ELSE b[k]]

\* { ...a, ...b }
Merge(a, b) ==
    [k \in DOMAIN a \cup DOMAIN b |-> IF k \in DOMAIN b THEN b[k] ELSE a[k]]

\* ...options.env: spreading undefined adds nothing
Spread(opt) == IF opt = <<>> THEN <<>> ELSE opt[1]

\* Mutant: the caller's options are dropped; every option takes its default.
constructor_DefaultsOnly(opts, env) ==
    [pythonExecutable |-> "python3", serverPath |-> getDefaultServerPath,
     cwd |-> getPackageRoot, env |-> env, debug |-> FALSE]

constructor(opts, env) ==
    [pythonExecutable |-> OrString(opts.pythonExecutable, "python3"),
     serverPath       |-> OrString(opts.serverPath, getDefaultServerPath),
     cwd              |-> OrString(opts.cwd, getPackageRoot),
     env              |-> Merge(env, Spread(opts.env)),
     debug            |-> OrBoolean(opts.debug, FALSE)]

\* The options and environments the instance is constructed with.
EnvKeys == {"PATH", "OPENAI_API_KEY"}
Envs == UNION {[K -> {"proc"}] : K \in {{"PATH"}, EnvKeys}}
Overrides == UNION {[K -> {"over"}] : K \in SUBSET EnvKeys}
AllOptions ==
    [pythonExecutable : {<<>>, <<"">>, <<"/opt/python">>},
     serverPath       : {<<>>, <<"/srv/server.py">>},
     cwd              : {<<>>, <<"/srv">>},
     env              : {<<>>} \cup {<<o>> : o \in Overrides},
     debug            : {<<>>, <<FALSE>>, <<TRUE>>}]
DebugOptions == {[NoOptions EXCEPT !.debug = d] : d \in {<<>>, <<TRUE>>}}

\* Neither the CLI nor the post-install script is what runs.
NoCli == [command |-> "none"]
NoSetup == [pc |-> "none"]

\* The instance constructed from opts under the environment env, before any call.
Constructed(opts, env) ==
    /\ cli = NoCli
    /\ setup = NoSetup
    /\ given = opts
    /\ processEnv = env
    /\ options = constructor(opts, env)
    /\ serverFile \in BOOLEAN
    /\ process = Null
    /\ children = <<>>
    /\ pc = [i \in Invocations |-> "idle"]
    /\ probe = [i \in Invocations |-> NoProbe]
    /\ listeners = [s \in Signals |-> 0]
    /\ exited = "no"
    /\ exitCode = 0
    /\ trace = <<>>

Init == \E opts \in DebugOptions : Constructed(opts, [PATH |-> "proc"])

Alive == exited = "no"

\* A process.nextTick callback is queued: the 'error' event of a spawn the OS
\* refused.  It runs before any I/O event or signal is delivered.
TickPending ==
    \/ \E i \in Invocations : probe[i].state = "launchFailed"
    \/ \E h \in 1..Len(children) : children[h].state = "spawnFailed"

\* Mutant: the negation of killed is lost.
getStatus_KilledInverted ==
    [running |-> process # Null /\ children[process].killed,
     pid     |-> IF process # Null THEN children[process].pid ELSE Null,
     options |-> options]

\* ------------------------------------------------------------ getStatus
getStatus ==
    [running |-> process # Null /\ ~children[process].killed,
     pid     |-> IF process # Null THEN children[process].pid ELSE Null,
     options |-> options]

\* ----------------------------------------------- checkPythonDependencies
\* What becomes of the probe that spawn() was asked for: the runtime cannot be
\* launched ('error' is queued), the probe runs and exits ('close' follows), or
\* the probe runs and never exits (no event follows; the code sets no timer).
ProbeFates == {"launchFailed", "running", "hung"}

\* start(), up to its await, on an instance whose options are conf: the debug
\* line, then the probe is spawned.
startBody(i, tr, conf) ==
    /\ \E fate \in ProbeFates :
        LET launched == fate # "launchFailed" IN
        /\ probe' = [probe EXCEPT ![i] = [NoProbe EXCEPT !.state = fate]]
        /\ trace' = tr
                    \o <<Ev("start", i, Null, 0, "", <<>>)>>
                    \o (IF conf.debug THEN <<Out("Checking Python dependencies", i)>>
                        ELSE <<>>)
                    \o <<SpawnEv(i, Null, IF launched THEN 1 ELSE 0, "probe", <<>>, ProbeStdio,
                                 conf)>>
    /\ pc' = [pc EXCEPT ![i] = "awaitProbe"]
    /\ UNCHANGED <<serverFile, process, children, listeners, exited, exitCode>>

\* start() called by an embedding caller.
Start(i) ==
    /\ Alive
    /\ pc[i] = "idle"
    /\ \A j \in Invocations : j < i => pc[j] # "idle"
    /\ startBody(i, trace, options)
    /\ UNCHANGED <<cli, setup, given, processEnv, options>>

\* checkPythonDependencies() called by an embedding caller itself (as the CLI's
\* test command does): the same probe, and the promise goes to that caller.
Check(i) ==
    /\ Alive
    /\ pc[i] = "idle"
    /\ \A j \in Invocations : j < i => pc[j] # "idle"
    /\ \E fate \in ProbeFates :
        /\ probe' = [probe EXCEPT ![i] = [NoProbe EXCEPT !.state = fate]]
        /\ trace' = trace
                    \o <<Ev("check", i, Null, 0, "", <<>>),
                         SpawnEv(i, Null, IF fate # "launchFailed" THEN 1 ELSE 0, "probe",
                                 <<>>, ProbeStdio, options)>>
    /\ pc' = [pc EXCEPT ![i] = "awaitCheck"]
    /\ UNCHANGED <<cli, setup, given, processEnv, options, serverFile, process, children, listeners,
                   exited, exitCode>>

\* The probe's stdout and stderr 'data' handlers accumulate the chunks
\* (output += data, error += data); every chunk is delivered before 'close'.
\* Texts: what the accumulators can hold when 'close' is delivered.
RECURSIVE TextsOfLen(_)
TextsOfLen(n) ==
    IF n = 0 THEN {<<>>}
    ELSE {Append(t, tok) : t \in TextsOfLen(n - 1), tok \in Tokens}

Texts == UNION {TextsOfLen(n) : n \in 0..MaxChunks}

\* Mutant: the sentinel is not looked for; exit code 0 alone is a success.
closeVerdict_CodeOnly(code, output, error) ==
    IF code = 0
    THEN [ok |-> TRUE, kind |-> "", detail |-> <<>>]
    ELSE [ok |-> FALSE, kind |-> "Python dependencies check failed",
          detail |-> IF error # <<>> THEN error ELSE output]

\* The probe's 'close' handler: resolve(true), or reject with error || output.
closeVerdict(code, output, error) ==
    IF code = 0 /\ Includes(output, "DEPENDENCIES_OK")
    THEN [ok |-> TRUE, kind |-> "", detail |-> <<>>]
    ELSE [ok |-> FALSE, kind |-> "Python dependencies check failed",
          detail |-> IF error # <<>> THEN error ELSE output]

\* Mutant: a launch failure is rejected like a failed check.
errorVerdict_AsCheckFailure ==
    [ok |-> FALSE, kind |-> "Python dependencies check failed", detail |-> <<>>]

\* The probe's 'error' handler: reject.
errorVerdict ==
    [ok |-> FALSE, kind |-> "Failed to run Python", detail |-> <<>>]

\* ----------------------------------------------------------------- start
\* process.exit(code): a null or undefined code exits with status 0.
processExit(code) ==
    /\ exited' = "exit"
    /\ exitCode' = IF code = NullCode THEN 0 ELSE code

\* Mutant: the catch block launches the probe again instead of exiting.
catchBlock_Retries(i, err, tr) ==
    /\ trace' = tr
                \o <<Err(err.kind, i),
                     SpawnEv(i, Null, 1, "probe", <<>>, ProbeStdio, options)>>
    /\ pc' = [pc EXCEPT ![i] = "failed"]
    /\ UNCHANGED <<process, children, listeners, exited, exitCode>>

\* Mutant: the catch block reports and rethrows; the caller's handler reports
\* the failure again and exits.
catchBlock_Rethrows(i, err, tr) ==
    /\ trace' = tr
                \o <<Err(err.kind, i), Err("Failed to start server", 0),
                     Ev("exit", i, Null, 1, "", <<>>)>>
    /\ processExit(1)
    /\ pc' = [pc EXCEPT ![i] = "failed"]
    /\ UNCHANGED <<process, children, listeners>>

\* start()'s catch block: the diagnostic, the hint, process.exit(1).
catchBlock(i, err, tr) ==
    /\ trace' = tr
                \o <<Err(err.kind, i)>>
                \o (IF Includes(err.detail, "MISSING_DEPENDENCY: X")
                    THEN <<Out("Try running: npm run install-python-deps", i),
                           Out("Or manually install", i)>>
                    ELSE <<>>)
                \o <<Ev("exit", i, Null, 1, "", <<>>)>>
    /\ processExit(1)
    /\ pc' = [pc EXCEPT ![i] = "failed"]
    /\ UNCHANGED <<process, children, listeners>>

\* Mutant: the observers are registered in a later job, after start() returned.
spawnServer_ObserversLate(i, tr, created) ==
    LET h == Len(children) + 1 IN
    /\ children' = Append(children,
                     [pid    |-> IF created THEN h ELSE Undefined,
                      state  |-> IF created THEN "live" ELSE "spawnFailed",
                      killed |-> FALSE, sigterms |-> 0, inv |-> i, code |-> 0])
    /\ process' = h
    /\ listeners' = [s \in Signals |-> listeners[s] + 1]
    /\ trace' = tr
                \o <<SpawnEv(i, h, IF created THEN 1 ELSE 0, "child", <<options.cwd>>,
                            ChildStdio, options)>>
                \o (IF options.debug
                    THEN <<Out("NLSQL MCP Server started successfully", i)>>
                    ELSE <<>>)
                \o <<Ev("return", i, h, 0, "", <<>>),
                     Ev("on", i, h, 0, "error", <<>>),
                     Ev("on", i, h, 0, "close", <<>>)>>
    /\ pc' = [pc EXCEPT ![i] = "returned"]
    /\ UNCHANGED <<exited, exitCode>>

\* start() after the entry point was found: spawn, observers, signal handlers.
\* created: whether the OS creates the child; if not, spawn() still returns a
\* ChildProcess (no pid) and queues its 'error' event.
spawnServer(i, tr, created) ==
    LET h == Len(children) + 1 IN
    /\ children' = Append(children,
                     [pid    |-> IF created THEN h ELSE Undefined,
                      state  |-> IF created THEN "live" ELSE "spawnFailed",
                      killed |-> FALSE, sigterms |-> 0, inv |-> i, code |-> 0])
    /\ process' = h
    /\ listeners' = [s \in Signals |-> listeners[s] + 1]
    /\ trace' = tr
                \o <<SpawnEv(i, h, IF created THEN 1 ELSE 0, "child", <<options.cwd>>,
                            ChildStdio, options),
                     Ev("on", i, h, 0, "error", <<>>),
                     Ev("on", i, h, 0, "close", <<>>)>>
                \o (IF options.debug
                    THEN <<Out("NLSQL MCP Server started successfully", i)>>
                    ELSE <<>>)
                \o <<Ev("return", i, h, 0, "", <<>>)>>
    /\ pc' = [pc EXCEPT ![i] = "returned"]
    /\ UNCHANGED <<exited, exitCode>>

\* Mutant: the probe's verdict is not awaited; start() goes on after a rejection.
afterProbe_IgnoresVerdict(i, res, tr, created) ==
    LET tr1 == tr \o <<Ev("existsSync", i, Null, IF serverFile THEN 1 ELSE 0,
                          "serverPath", <<>>)>>
    IN IF ~serverFile
       THEN catchBlock(i, [ok |-> FALSE, kind |-> "Python server file not found",
                           detail |-> <<>>], tr1)
       ELSE spawnServer(i, tr1, created)

\* Mutant: the entry point is not looked for before the spawn.
afterProbe_NoEntryCheck(i, res, tr, created) ==
    IF ~res.ok
    THEN catchBlock(i, res, tr)
    ELSE spawnServer(i, tr, created)

\* start() from the await on: the body of the try after checkPythonDependencies
\* settled with verdict res.
afterProbe(i, res, tr, created) ==
    IF ~res.ok
    THEN catchBlock(i, res, tr)
    ELSE LET tr1 == tr \o (IF options.debug
                           THEN <<Out("Python dependencies OK", i),
                                  Out("Starting NLSQL MCP Server", i)>>
                           ELSE <<>>)
                       \o <<Ev("existsSync", i, Null, IF serverFile THEN 1 ELSE 0,
                               "serverPath", <<>>)>>
         IN IF ~serverFile
            THEN catchBlock(i, [ok |-> FALSE, kind |-> "Python server file not found",
                                detail |-> <<>>], tr1)
            ELSE spawnServer(i, tr1, created)

\* The promise of a direct checkPythonDependencies() call settled: its caller
\* has the result.
checkReturns(i, tr) ==
    /\ trace' = tr
    /\ pc' = [pc EXCEPT ![i] = "checked"]
    /\ UNCHANGED <<process, children, listeners, exited, exitCode>>

\* resolve() and reject() settle a pending promise and do nothing to a settled one.
settle(settled, res) ==
    IF settled # "pending" THEN settled
    ELSE IF res.ok THEN "resolved" ELSE "rejected"

\* The probe's 'close' event, and the caller resumed by the settled promise.
ProbeClose(i, code, output, error, created) ==
    /\ Alive /\ ~TickPending
    /\ pc[i] \in {"awaitProbe", "awaitCheck"}
    /\ probe[i].state = "running"
    /\ probe[i].settled = "pending"
    /\ LET res == closeVerdict(code, output, error)
           tr  == trace \o <<Ev("event", i, Null, code, "probe close", <<>>),
                              Ev(IF res.ok THEN "resolve" ELSE "reject", i, Null, 0,
                                 res.kind, <<>>)>>
       IN
        /\ probe' = [probe EXCEPT ![i] =
                        [state |-> "closed", settled |-> settle(probe[i].settled, res)]]
        /\ IF pc[i] = "awaitProbe" THEN afterProbe(i, res, tr, created)
           ELSE checkReturns(i, tr)
    /\ UNCHANGED <<cli, setup, given, processEnv, options, serverFile>>

\* The probe's 'error' event (the runtime executable could not be launched),
\* and the caller resumed by the rejected promise.
ProbeError(i) ==
    /\ Alive
    /\ pc[i] \in {"awaitProbe", "awaitCheck"}
    /\ probe[i].state = "launchFailed"
    /\ probe[i].settled = "pending"
    /\ probe' = [probe EXCEPT ![i].state = "errored",
                              ![i].settled = settle(probe[i].settled, errorVerdict)]
    /\ LET tr == trace \o <<Ev("event", i, Null, 0, "probe error", <<>>),
                            Ev("reject", i, Null, 0, errorVerdict.kind, <<>>)>>
       IN IF pc[i] = "awaitProbe" THEN afterProbe(i, errorVerdict, tr, FALSE)
          ELSE checkReturns(i, tr)
    /\ UNCHANGED <<cli, setup, given, processEnv, options, serverFile>>

\* The 'close' event of a probe that could not be launched.  Node emits it after
\* the 'error' event, with the negative errno as code and nothing captured; the
\* 'close' handler runs on a promise the 'error' handler has settled.
ProbeCloseAfterError(i) ==
    /\ Alive /\ ~TickPending
    /\ probe[i].state = "errored"
    /\ LET res  == closeVerdict(Enoent, <<>>, <<>>)
           now  == settle(probe[i].settled, res)
           tr   == Append(trace, Ev("event", i, Null, Enoent, "probe close", <<>>))
       IN
        /\ probe' = [probe EXCEPT ![i] = [state |-> "closed", settled |-> now]]
        /\ trace' = IF probe[i].settled = "pending"
                    THEN Append(tr, Ev(IF res.ok THEN "resolve" ELSE "reject", i, Null, 0,
                                       res.kind, <<>>))
                    ELSE tr
    /\ UNCHANGED <<cli, setup, given, processEnv, options, serverFile, process, children, pc,
                   listeners, exited, exitCode>>

\* The child's 'error' observer.
ChildError(h) ==
    /\ Alive
    /\ h \in 1..Len(children)
    /\ children[h].state = "spawnFailed"
    /\ children' = [children EXCEPT ![h].state = "errored"]
    /\ trace' = trace \o <<Ev("event", children[h].inv, h, 0, "child error", <<>>),
                           Err("Failed to start Python server", children[h].inv),
                           Ev("exit", children[h].inv, h, 1, "", <<>>)>>
    /\ processExit(1)
    /\ UNCHANGED <<cli, setup, given, processEnv, options, serverFile, process, pc, probe, listeners>>

\* Mutant: the close observer exits with 1, not with the child's code.
ChildClose_ExitsOne(h, code) ==
    /\ Alive /\ ~TickPending
    /\ h \in 1..Len(children)
    /\ children[h].state = "live"
    /\ children' = [children EXCEPT ![h].state = "closed", ![h].code = code]
    /\ IF code # 0
       THEN /\ trace' = trace
                        \o <<Ev("event", children[h].inv, h, code, "child close", <<>>),
                             Err("Python server exited with code", children[h].inv),
                             Ev("exit", children[h].inv, h, 1, "", <<>>)>>
            /\ processExit(1)
       ELSE /\ trace' = Append(trace,
                               Ev("event", children[h].inv, h, code, "child close", <<>>))
            /\ UNCHANGED <<exited, exitCode>>
    /\ UNCHANGED <<cli, setup, given, processEnv, options, serverFile, process, pc, probe, listeners>>

\* The child's 'close' observer.
ChildClose(h, code) ==
    /\ Alive /\ ~TickPending
    /\ h \in 1..Len(children)
    /\ children[h].state = "live"
    /\ children' = [children EXCEPT ![h].state = "closed", ![h].code = code]
    /\ IF code # 0
       THEN /\ trace' = trace
                        \o <<Ev("event", children[h].inv, h, code, "child close", <<>>),
                             Err("Python server exited with code", children[h].inv),
                             Ev("exit", children[h].inv, h, code, "", <<>>)>>
            /\ processExit(code)
       ELSE /\ trace' = Append(trace,
                               Ev("event", children[h].inv, h, code, "child close", <<>>))
            /\ UNCHANGED <<exited, exitCode>>
    /\ UNCHANGED <<cli, setup, given, processEnv, options, serverFile, process, pc, probe, listeners>>

\* ------------------------------------------------------------------ stop
\* ChildProcess.kill('SIGTERM'): delivered, and killed set, only to a live child.
kill(c) ==
    IF c.state = "live"
    THEN [c EXCEPT !.killed = TRUE, !.sigterms = @ + 1]
    ELSE c

\* Mutant: the handle is not cleared after the kill.
stop_KeepsHandle(tr) ==
    /\ IF process # Null
       THEN /\ children' = [children EXCEPT ![process] = kill(@)]
            /\ trace' = tr
                        \o <<Ev("stop", 0, process, 0, "", <<>>),
                             Out("Stopping NLSQL MCP Server", 0),
                             Ev("kill", 0, process,
                                IF children[process].state = "live" THEN 1 ELSE 0,
                                "SIGTERM", <<>>),
                             Ev("exit", 0, process, 0, "", <<>>)>>
       ELSE /\ trace' = tr
                        \o <<Ev("stop", 0, Null, 0, "", <<>>),
                             Ev("exit", 0, Null, 0, "", <<>>)>>
            /\ UNCHANGED children
    /\ UNCHANGED process
    /\ processExit(0)
    /\ UNCHANGED <<cli, setup, given, processEnv, options, serverFile, pc, probe, listeners>>

stop(tr) ==
    /\ IF process # Null
       THEN /\ children' = [children EXCEPT ![process] = kill(@)]
            /\ process' = Null
            /\ trace' = tr
                        \o <<Ev("stop", 0, process, 0, "", <<>>),
                             Out("Stopping NLSQL MCP Server", 0),
                             Ev("kill", 0, process,
                                IF children[process].state = "live" THEN 1 ELSE 0,
                                "SIGTERM", <<>>),
                             Ev("exit", 0, process, 0, "", <<>>)>>
       ELSE /\ trace' = tr
                        \o <<Ev("stop", 0, Null, 0, "", <<>>),
                             Ev("exit", 0, Null, 0, "", <<>>)>>
            /\ UNCHANGED <<children, process>>
    /\ processExit(0)
    /\ UNCHANGED <<cli, setup, given, processEnv, options, serverFile, pc, probe, listeners>>

\* stop() called by the embedding caller.
ApiStop ==
    /\ Alive
    /\ stop(trace)

\* Mutant: only SIGINT has a listener; SIGTERM keeps the platform's default.
Signal_OnlySigint(sig) ==
    /\ Alive /\ ~TickPending
    /\ IF listeners[sig] > 0 /\ sig = "SIGINT"
       THEN stop(Append(trace, Ev("event", 0, Null, 1, sig, <<>>)))
       ELSE /\ exited' = "signal"
            /\ trace' = Append(trace, Ev("event", 0, Null, 0, sig, <<>>))
            /\ UNCHANGED <<cli, setup, given, processEnv, options, serverFile, process, children, pc, probe,
                           listeners, exitCode>>

\* SIGINT or SIGTERM delivered to the supervisor: the listeners start() registered,
\* or, with none registered, the platform's default (the process is terminated).
Signal(sig) ==
    /\ Alive /\ ~TickPending
    /\ IF listeners[sig] > 0
       THEN stop(Append(trace, Ev("event", 0, Null, 1, sig, <<>>)))
       ELSE /\ exited' = "signal"
            /\ trace' = Append(trace, Ev("event", 0, Null, 0, sig, <<>>))
            /\ UNCHANGED <<cli, setup, given, processEnv, options, serverFile, process, children, pc, probe,
                           listeners, exitCode>>

\* The child that stop() signalled exits after the supervisor is gone; nobody
\* observes its exit code.
ChildExitUnobserved(h, code) ==
    /\ ~Alive
    /\ h \in 1..Len(children)
    /\ children[h].state = "live"
    /\ children[h].sigterms > 0
    /\ children' = [children EXCEPT ![h].state = "gone", ![h].code = code]
    /\ UNCHANGED <<cli, setup, given, processEnv, options, serverFile, process, pc, probe, listeners,
                   exited, exitCode, trace>>

Next ==
    \/ \E i \in Invocations : Start(i)
    \/ \E i \in Invocations, code \in ProbeCodes, output \in Texts, error \in Texts,
          created \in BOOLEAN :
          ProbeClose(i, code, output, error, created)
    \/ \E i \in Invocations : ProbeError(i)
    \/ \E h \in 1..MaxStarts : ChildError(h)
    \/ \E h \in 1..MaxStarts, code \in ChildCodes : ChildClose(h, code)
    \/ ApiStop
    \/ \E sig \in Signals : Signal(sig)
    \/ \E h \in 1..MaxStarts, code \in ChildCodes : ChildExitUnobserved(h, code)

Spec == Init /\ [][Next]_vars

\* Direct dependency checks: the caller only calls checkPythonDependencies().
NextCheck ==
    \/ \E i \in Invocations : Check(i)
    \/ \E i \in Invocations, code \in ProbeCodes, output \in Texts, error \in Texts :
          ProbeClose(i, code, output, error, FALSE)
    \/ \E i \in Invocations : ProbeError(i)
    \/ \E i \in Invocations : ProbeCloseAfterError(i)
    \/ ApiStop
    \/ \E sig \in Signals : Signal(sig)

CheckSpec == Init /\ [][NextCheck]_vars

\* One call on the instance, start() or checkPythonDependencies(), and what
\* follows it.
NextOnce ==
    \/ Start(1)
    \/ Check(1)
    \/ ProbeCloseAfterError(1)
    \/ \E code \in ProbeCodes, output \in Texts, error \in Texts, created \in BOOLEAN :
          ProbeClose(1, code, output, error, created)
    \/ ProbeError(1)
    \/ ChildError(1)
    \/ \E code \in ChildCodes : ChildClose(1, code)
    \/ ApiStop
    \/ \E sig \in Signals : Signal(sig)
    \/ \E code \in ChildCodes : ChildExitUnobserved(1, code)

OnceSpec == Init /\ [][NextOnce]_vars

\* Configuration: an instance constructed with any of AllOptions under any of
\* Envs, and called once.
InitConfig == \E opts \in AllOptions, env \in Envs : Constructed(opts, env)

ConfigSpec == InitConfig /\ [][NextOnce]_vars

\* The event loop runs every job that is queued: the 'error' event of a spawn
\* that failed (process.nextTick) and the 'close' event of a probe that exits.
\* Nothing is assumed of the caller, of signals or of the child's own exit.
FairSpec ==
    /\ Spec
    /\ \A i \in Invocations :
          /\ WF_vars(ProbeError(i))
          /\ WF_vars(\E code \in ProbeCodes, output \in Texts, error \in Texts,
                        created \in BOOLEAN :
                        ProbeClose(i, code, output, error, created))
    /\ \A h \in 1..MaxStarts : WF_vars(ChildError(h))

\* ============================================ bin/nlsql-mcp-server.js
\* The CLI process: one command per process.  The supervisor of the start
\* command is invocation 1 of the instance the command constructs.
Commands == {"start", "install-deps", "test"}
EnvFiles == {"none", "missing", "found"}

\* No NLSQLMCPServer instance has been constructed yet.
NoInstance == <<>>

\* The command line, the terminal and the files the command finds:
\* --debug, --env-file (not given, given and missing, given and found), whether
\* stdin is a TTY, whether python-src/requirements.txt exists.
InitCli ==
    /\ cli \in [command : Commands, pc : {"launched"}, stdinTTY : BOOLEAN,
                debug : BOOLEAN, envFile : EnvFiles, requirements : BOOLEAN,
                results : {<<>>}]
    /\ setup = NoSetup
    /\ given = NoOptions
    /\ processEnv \in Envs
    /\ options = NoInstance
    /\ serverFile \in BOOLEAN
    /\ process = Null
    /\ children = <<>>
    /\ pc = [i \in Invocations |-> "idle"]
    /\ probe = [i \in Invocations |-> NoProbe]
    /\ listeners = [s \in Signals |-> 0]
    /\ exited = "no"
    /\ exitCode = 0
    /\ trace = <<>>

\* new NLSQLMCPServer({debug: options.debug, pythonExecutable: options.python}):
\* --python has the default 'python3', --debug is undefined when not given.
startOptions(debug) ==
    [NoOptions EXCEPT !.debug = IF debug THEN <<TRUE>> ELSE <<>>,
                      !.pythonExecutable = <<"python3">>]

\* The banner of the start command, kept back in MCP mode.
startBanner(mcpMode) ==
    IF ~mcpMode
    THEN <<Out("NLSQL MCP Server v", 0), Out("Convert natural language to SQL using AI", 0)>>
    ELSE <<>>

\* What the start command writes before it constructs the server: the banner,
\* the warning for a missing environment file, the warning for a missing key.
startPreamble(mcpMode, envFile, env) ==
    startBanner(mcpMode)
    \o (IF envFile = "missing" /\ ~mcpMode
        THEN <<Err("Environment file not found", 0)>> ELSE <<>>)
    \o (IF "OPENAI_API_KEY" \notin DOMAIN env /\ ~mcpMode
        THEN <<Err("OpenAI API key not set", 0),
               Out("Set OPENAI_API_KEY environment variable or use --env-file", 0)>>
        ELSE <<>>)

\* The start command, up to the await in start().  require('dotenv') throws:
\* the package does not depend on dotenv (package.json), so an environment file
\* that is found ends the command in its catch block.
CliStart ==
    /\ Alive
    /\ cli.command = "start" /\ cli.pc = "launched"
    /\ LET mcpMode == ~cli.stdinTTY IN
       IF cli.envFile = "found"
       THEN /\ trace' = trace
                        \o startBanner(mcpMode)
                        \o <<Err("Failed to start server", 0),
                             Ev("exit", 0, Null, 1, "", <<>>)>>
            /\ processExit(1)
            /\ cli' = [cli EXCEPT !.pc = "failed"]
            /\ UNCHANGED <<given, options, serverFile, process, children, pc, probe,
                           listeners>>
       ELSE /\ given' = startOptions(cli.debug)
            /\ options' = constructor(startOptions(cli.debug), processEnv)
            /\ startBody(1, trace \o startPreamble(mcpMode, cli.envFile, processEnv),
                         constructor(startOptions(cli.debug), processEnv))
            /\ cli' = [cli EXCEPT !.pc = "started"]
    /\ UNCHANGED <<setup, processEnv>>

\* The install-deps command, up to its await: the spinner, the requirements
\* file, the spawn of pip.  (ora writes to stderr.)
CliInstall ==
    /\ Alive
    /\ cli.command = "install-deps" /\ cli.pc = "launched"
    /\ IF ~cli.requirements
       THEN /\ trace' = trace
                        \o <<Err("Installing Python dependencies...", 0),
                             Err("Failed to install dependencies", 0),
                             Ev("exit", 0, Null, 1, "", <<>>)>>
            /\ processExit(1)
            /\ cli' = [cli EXCEPT !.pc = "failed"]
       ELSE /\ trace' = trace
                        \o <<Err("Installing Python dependencies...", 0),
                             Ev("spawn", 0, Null, 1, "pip", <<"pipe", "pipe", "pipe">>)>>
            /\ cli' = [cli EXCEPT !.pc = "awaitPip"]
            /\ UNCHANGED <<exited, exitCode>>
    /\ UNCHANGED <<setup, given, processEnv, options, serverFile, process, children, pc,
                   probe, listeners>>

\* The handlers of pip: 'close' resolves for code 0 and rejects otherwise,
\* 'error' rejects.
installVerdict(event, code) == event = "close" /\ code = 0

\* pip's 'close' or 'error' event and the rest of the install-deps command.
CliInstallDone(event, code) ==
    /\ Alive
    /\ cli.command = "install-deps" /\ cli.pc = "awaitPip"
    /\ IF installVerdict(event, code)
       THEN /\ trace' = trace
                        \o <<Ev("event", 0, Null, code, "pip " \o event, <<>>),
                             Err("Python dependencies installed successfully", 0)>>
            /\ cli' = [cli EXCEPT !.pc = "done"]
            /\ UNCHANGED <<exited, exitCode>>
       ELSE /\ trace' = trace
                        \o <<Ev("event", 0, Null, code, "pip " \o event, <<>>),
                             Err("Failed to install dependencies", 0),
                             Ev("exit", 0, Null, 1, "", <<>>)>>
            /\ processExit(1)
            /\ cli' = [cli EXCEPT !.pc = "failed"]
    /\ UNCHANGED <<setup, given, processEnv, options, serverFile, process, children, pc,
                   probe, listeners>>

\* spinner.succeed / spinner.fail of one test
testReport(name, result) ==
    Err(name \o (IF result THEN " ok" ELSE " failed"), 0)

\* The test command, up to the await of its first test: python --version.
CliTest ==
    /\ Alive
    /\ cli.command = "test" /\ cli.pc = "launched"
    /\ trace' = trace
                \o <<Out("Testing NLSQL MCP Server Installation", 0),
                     Err("Testing Python executable...", 0),
                     Ev("spawn", 0, Null, 1, "python --version", <<"pipe", "pipe", "pipe">>)>>
    /\ cli' = [cli EXCEPT !.pc = "awaitVersion"]
    /\ UNCHANGED <<setup, given, processEnv, options, serverFile, process, children, pc,
                   probe, listeners, exited, exitCode>>

\* The first test's 'close' (code === 0) or 'error' (false), its report, and
\* the second test up to its await: a server is constructed and
\* checkPythonDependencies() spawns the probe.
CliTestVersionDone(event, code) ==
    /\ Alive
    /\ cli.command = "test" /\ cli.pc = "awaitVersion"
    /\ LET result == event = "close" /\ code = 0
           conf   == constructor([NoOptions EXCEPT !.pythonExecutable = <<"python3">>],
                                 processEnv)
       IN
        /\ cli' = [cli EXCEPT !.pc = "awaitCheck", !.results = Append(@, result)]
        /\ given' = [NoOptions EXCEPT !.pythonExecutable = <<"python3">>]
        /\ options' = conf
        /\ trace' = trace
                    \o <<Ev("event", 0, Null, code, "version " \o event, <<>>),
                         testReport("Python executable", result),
                         Err("Testing Python dependencies...", 0),
                         SpawnEv(0, Null, 1, "probe", <<>>, ProbeStdio, conf)>>
    /\ UNCHANGED <<setup, processEnv, serverFile, process, children, pc, probe, listeners,
                   exited, exitCode>>

\* The probe's 'close' or 'error' event in the test command, the second test's
\* report, the third test (the credential variable) and the final line: the
\* command calls process.exit nowhere.
CliTestCheckDone(event, code, output, error) ==
    /\ Alive
    /\ cli.command = "test" /\ cli.pc = "awaitCheck"
    /\ LET res    == IF event = "close" THEN closeVerdict(code, output, error)
                     ELSE errorVerdict
           hasKey == "OPENAI_API_KEY" \in DOMAIN processEnv
           results == cli.results \o <<res.ok, hasKey>>
       IN
        /\ cli' = [cli EXCEPT !.pc = "done", !.results = results]
        /\ trace' = trace
                    \o <<Ev("event", 0, Null, code, "probe " \o event, <<>>),
                         testReport("Python dependencies", res.ok),
                         Err("Testing OpenAI API key...", 0),
                         testReport("OpenAI API key", hasKey),
                         Out("Testing complete!", 0)>>
    /\ UNCHANGED <<setup, given, processEnv, options, serverFile, process, children, pc,
                   probe, listeners, exited, exitCode>>

\* Nothing is left to run (no child, no pending promise: signal listeners do
\* not keep the event loop alive): Node exits with status 0.
LoopEmpty ==
    /\ Alive /\ ~TickPending
    /\ \/ cli.pc = "done"
       \/ /\ cli.pc = "started"
          /\ pc[1] = "returned"
          /\ \A h \in 1..Len(children) : children[h].state = "closed"
    /\ exited' = "exit"
    /\ exitCode' = 0
    /\ trace' = Append(trace, Ev("exit", 0, Null, 0, "loop empty", <<>>))
    /\ UNCHANGED <<cli, setup, given, processEnv, options, serverFile, process, children,
                   pc, probe, listeners>>

PipEvents == {"close", "error"}

NextCli ==
    \/ CliStart
    \/ \E code \in ProbeCodes, output \in Texts, error \in Texts, created \in BOOLEAN :
          ProbeClose(1, code, output, error, created)
    \/ ProbeError(1)
    \/ ChildError(1)
    \/ \E code \in ChildCodes : ChildClose(1, code)
    \/ \E sig \in Signals : Signal(sig)
    \/ \E code \in ChildCodes : ChildExitUnobserved(1, code)
    \/ CliInstall
    \/ \E event \in PipEvents, code \in ProbeCodes : CliInstallDone(event, code)
    \/ CliTest
    \/ \E event \in PipEvents, code \in ProbeCodes : CliTestVersionDone(event, code)
    \/ \E event \in PipEvents, code \in ProbeCodes, output \in Texts, error \in Texts :
          CliTestCheckDone(event, code, output, error)
    \/ LoopEmpty

CliSpec == InitCli /\ [][NextCli]_vars

\* ============================================ scripts/install-deps.js
\* The post-install script: one process, main() run once.  Every action is one
\* job of the event loop: main() up to its first await, or the first event of
\* an awaited child ('close' or 'error') with the continuation it resumes.
pythonExecutables == <<"python3", "python", "py">>

\* python-src: "ready" (the directory with server.py), "empty" (the directory
\* without server.py), "absent" (no directory, mkdirSync creates it),
\* "blocked" (no directory, mkdirSync throws).
PythonSrcStates == {"ready", "empty", "absent", "blocked"}

\* python-src/requirements.txt: "present", "absent" (writeFileSync creates
\* it), "unwritable" (absent, writeFileSync throws).
RequirementsStates == {"present", "absent", "unwritable"}

\* pythonCmd is "" for the null of the code (both are falsy in !pythonCmd).
InitSetup ==
    /\ setup \in [pc : {"launched"}, pythonSrc : PythonSrcStates,
                  nl2sqlDir : BOOLEAN, nl2sqlRequirements : BOOLEAN,
                  requirements : RequirementsStates, tried : {0},
                  pythonCmd : {""}]
    /\ setup.nl2sqlRequirements => setup.nl2sqlDir
    /\ cli = NoCli
    /\ given = NoOptions
    /\ processEnv = [PATH |-> "proc"]
    /\ options = NoInstance
    /\ serverFile = (setup.pythonSrc = "ready")
    /\ process = Null
    /\ children = <<>>
    /\ pc = [i \in Invocations |-> "idle"]
    /\ probe = [i \in Invocations |-> NoProbe]
    /\ listeners = [s \in Signals |-> 0]
    /\ exited = "no"
    /\ exitCode = 0
    /\ trace = <<>>

\* The entry of an event of an awaited child: h is the candidate's index for a
\* detection, code the exit code of 'close' and the errno of 'error'.
SetupEvent(what, h, event, code) ==
    Ev("event", 0, h, IF event = "error" THEN Enoent ELSE code, what \o " " \o event, <<>>)

\* The entry of a spawn of the script.
SetupSpawn(what, h, stdio) == Ev("spawn", 0, h, 1, what, stdio)

\* The 'close' and 'error' handlers of every awaited child of the script:
\* resolve for 'close' with code 0, reject otherwise.
resolves(event, code) == event = "close" /\ code = 0

\* The end of main(): the closing lines, or the catch block with
\* process.exit(1) when an awaited call rejected or a statement threw.
mainEnd(s, out, rejected) ==
    IF rejected
    THEN [setup |-> [s EXCEPT !.pc = "failed"],
          out   |-> out \o <<Err("Setup failed", 0)>>,
          fails |-> TRUE]
    ELSE [setup |-> [s EXCEPT !.pc = "done"],
          out   |-> out \o <<Out("Setup complete!", 0),
                             Out("Run: npx nlsql-mcp-server start", 0),
                             Out("Or: npm start", 0)>>,
          fails |-> FALSE]

\* The settlement of installPythonDependencies() as main() sees it.
installSettles(s, out, rejected) ==
    mainEnd(s,
            out \o <<Ev(IF rejected THEN "reject" ELSE "resolve", 0, Null, 0,
                        "installPythonDependencies", <<>>)>>,
            rejected)

\* Mutant: a failed installation is thrown on to main().
installCatch_Propagates(s, out) == installSettles(s, out, TRUE)

\* The catch block of the installations: a warning, the manual command, and a
\* normal return.
installCatch(s, out) ==
    installSettles(s,
                   out \o <<Err("Failed to install Python dependencies", 0),
                            Out("You can install them manually with:", 0),
                            Out("-m pip install -r requirements.txt", 0)>>,
                   FALSE)

\* The spawn of pip for the server's own requirements.
installServer(s, out) ==
    [setup |-> [s EXCEPT !.pc = "awaitServer"],
     out   |-> out \o <<SetupSpawn("server pip", Null, <<"inherit", "inherit", "inherit">>)>>,
     fails |-> FALSE]

\* Mutant: the server's requirements are installed whatever became of nl2sql.
afterNl2sql_Continues(s, out, ok) ==
    installServer(s, IF ok THEN out \o <<Out("nl2sql dependencies installed successfully!", 0)>>
                     ELSE out)

\* After the awaited nl2sql installation: on to the server's requirements when
\* it resolved, into the catch block when it rejected.
afterNl2sql(s, out, ok) ==
    IF ok
    THEN installServer(s, out \o <<Out("nl2sql dependencies installed successfully!", 0)>>)
    ELSE installCatch(s, out)

\* installPythonDependencies() once a Python was found: the requirements file
\* (created when absent; writeFileSync is outside the try), then the try block
\* up to its first await.
installFound(s, out) ==
    LET found == out \o <<Out("Found Python: " \o s.pythonCmd, 0)>>
        made  == IF s.requirements = "present" THEN found
                 ELSE found \o <<Out("Requirements file not found. Creating minimal requirements...", 0)>>
    IN
     IF s.requirements = "unwritable"
     THEN installSettles(s, made, TRUE)
     ELSE LET t  == [s EXCEPT !.requirements = "present"]
              o1 == IF s.requirements = "absent"
                    THEN made \o <<Out("Created requirements.txt", 0)>> ELSE made
              o2 == o1 \o <<Out("Installing Python packages...", 0),
                            Ev("existsSync", 0, Null,
                               IF s.nl2sqlRequirements THEN 1 ELSE 0,
                               "nl2sql/requirements.txt", <<>>)>>
          IN
           IF s.nl2sqlRequirements
           THEN [setup |-> [t EXCEPT !.pc = "awaitNl2sql"],
                 out   |-> o2 \o <<Out("Installing nl2sql dependencies...", 0),
                                   SetupSpawn("nl2sql pip", Null,
                                              <<"inherit", "inherit", "inherit">>)>>,
                 fails |-> FALSE]
           ELSE installServer(t, o2)

\* One round of the detection loop: spawn(cmd, ['--version']) for candidate k.
detect(s, out, k) ==
    [setup |-> [s EXCEPT !.pc = "awaitDetect", !.tried = k],
     out   |-> out \o <<SetupSpawn(pythonExecutables[k] \o " --version", k,
                                   <<"pipe", "pipe", "pipe">>)>>,
     fails |-> FALSE]

\* installPythonDependencies() up to its first await.
installBegin(s, out) ==
    detect(s, out \o <<Out("Setting up Python dependencies for NLSQL MCP Server...", 0)>>, 1)

\* downloadPythonSource() returned true: main() goes on to the installation.
sourceReady(s, out) ==
    installBegin(s, out \o <<Out("Python source code ready", 0)>>)

\* One job of the script: the new state, the lines written, process.exit(1).
SetupStep(r) ==
    /\ Alive
    /\ setup' = r.setup
    /\ trace' = trace \o r.out
                \o (IF r.fails THEN <<Ev("exit", 0, Null, 1, "", <<>>)>> ELSE <<>>)
    /\ IF r.fails THEN processExit(1) ELSE UNCHANGED <<exited, exitCode>>
    /\ UNCHANGED <<cli, given, processEnv, options, serverFile, process, children, pc,
                   probe, listeners>>

\* main() up to its first await: downloadPythonSource() as far as it runs.
SetupMain ==
    /\ setup.pc = "launched"
    /\ LET head == <<Out("NLSQL MCP Server Post-Install Setup", 0),
                     Out("Setting up Python source code...", 0)>>
           made == [setup EXCEPT !.pythonSrc = IF @ = "absent" THEN "empty" ELSE @]
       IN
        SetupStep(
          CASE setup.pythonSrc = "blocked" ->
                 mainEnd(setup, head, TRUE)
            [] setup.pythonSrc \in {"absent", "empty"} ->
                 mainEnd(made,
                         head \o <<Out("Python source not found.", 0),
                                   Out("The Python source should be included in the npm package.", 0),
                                   Out("If you're running from source, copy the src/ directory to python-src/", 0)>>,
                         FALSE)
            [] setup.pythonSrc = "ready" /\ ~setup.nl2sqlDir ->
                 [setup |-> [setup EXCEPT !.pc = "awaitGit"],
                  out   |-> head \o <<Out("nl2sql application not found.", 0),
                                      Out("Downloading nl2sql from GitHub...", 0),
                                      SetupSpawn("git submodule update", Null,
                                                 <<"inherit", "inherit", "inherit">>)>>,
                  fails |-> FALSE]
            [] setup.pythonSrc = "ready" /\ setup.nl2sqlDir ->
                 sourceReady(setup, head \o <<Out("nl2sql application found", 0)>>))

\* git's 'close' or 'error' event: the download succeeded (the submodule may
\* or may not bring a requirements file) or its failure is caught with a
\* warning; either way downloadPythonSource() returns true.
SetupGitDone(event, code, brings) ==
    /\ setup.pc = "awaitGit"
    /\ LET ev == <<SetupEvent("git", Null, event, code)>> IN
       IF resolves(event, code)
       THEN SetupStep(sourceReady([setup EXCEPT !.nl2sqlDir = TRUE,
                                                !.nl2sqlRequirements = brings],
                                  ev \o <<Out("nl2sql downloaded successfully", 0)>>))
       ELSE /\ ~brings
            /\ SetupStep(sourceReady(setup,
                                     ev \o <<Err("Failed to download nl2sql", 0),
                                             Out("You may need to install nl2sql manually.", 0)>>))

\* The 'close' or 'error' event of the candidate being tried: found (break),
\* the next candidate (continue), or no candidate left: the warning and a
\* normal return.
SetupDetectDone(event, code) ==
    /\ setup.pc = "awaitDetect"
    /\ LET k  == setup.tried
           ev == <<SetupEvent("detect", k, event, code)>>
       IN
        SetupStep(
          IF resolves(event, code)
          THEN installFound([setup EXCEPT !.pythonCmd = pythonExecutables[k]], ev)
          ELSE IF k < Len(pythonExecutables)
               THEN detect(setup, ev, k + 1)
               ELSE installSettles(setup,
                                   ev \o <<Err("Python not found. Please install Python 3.8+ manually.", 0),
                                           Out("You can install Python dependencies later with: npm run install-python-deps", 0)>>,
                                   FALSE))

\* The 'close' or 'error' event of the nl2sql installation.
SetupNl2sqlDone(event, code) ==
    /\ setup.pc = "awaitNl2sql"
    /\ SetupStep(afterNl2sql(setup, <<SetupEvent("nl2sql pip", Null, event, code)>>,
                             resolves(event, code)))

\* The 'close' or 'error' event of the installation of the server's own
\* requirements.
SetupServerDone(event, code) ==
    /\ setup.pc = "awaitServer"
    /\ LET ev == <<SetupEvent("server pip", Null, event, code)>> IN
       SetupStep(IF resolves(event, code)
                 THEN installSettles(setup,
                                     ev \o <<Out("MCP server dependencies installed successfully!", 0)>>,
                                     FALSE)
                 ELSE installCatch(setup, ev))

\* main() has returned and nothing is left to run: Node exits with status 0.
SetupLoopEmpty ==
    /\ Alive
    /\ setup.pc = "done"
    /\ exited' = "exit"
    /\ exitCode' = 0
    /\ trace' = Append(trace, Ev("exit", 0, Null, 0, "loop empty", <<>>))
    /\ UNCHANGED <<cli, setup, given, processEnv, options, serverFile, process, children,
                   pc, probe, listeners>>

NextSetup ==
    \/ SetupMain
    \/ \E event \in PipEvents, code \in ChildCodes, brings \in BOOLEAN :
          SetupGitDone(event, code, brings)
    \/ \E event \in PipEvents, code \in ChildCodes : SetupDetectDone(event, code)
    \/ \E event \in PipEvents, code \in ChildCodes : SetupNl2sqlDone(event, code)
    \/ \E event \in PipEvents, code \in ChildCodes : SetupServerDone(event, code)
    \/ SetupLoopEmpty

SetupSpec == InitSetup /\ [][NextSetup]_vars

\* ================================================================ claims
Steps == 1..Len(trace)

IsSpawn(e, who) == e.op = "spawn" /\ e.text = who
IsChildEvent(e, h) ==
    e.op = "event" /\ e.h = h /\ e.text \in {"child close", "child error"}
IsSignal(e) == e.op = "event" /\ e.text \in Signals

\* A child the OS created was spawned before step k and neither of its
\* observers has fired before step k.
ChildLiveAt(k) ==
    \E j \in 1..(k - 1) :
        /\ IsSpawn(trace[j], "child") /\ trace[j].code = 1
        /\ \A m \in (j + 1)..(k - 1) : ~IsChildEvent(trace[m], trace[j].h)

DependencyErrors == {"Python dependencies check failed", "Failed to run Python"}
EntryPointError == "Python server file not found"

Reported(i, kinds) ==
    \E k \in Steps : trace[k].op = "stderr" /\ trace[k].inv = i /\ trace[k].text \in kinds
SpawnedChild(i) ==
    \E k \in Steps : IsSpawn(trace[k], "child") /\ trace[k].inv = i

\* C1: every spawn of the supervised child inherits stdin, stdout and stderr
\* from the supervisor, and every spawn of the dependency probe pipes all three.
C1_StreamWiring ==
    \A k \in Steps :
        /\ IsSpawn(trace[k], "child") => trace[k].stdio = <<"inherit", "inherit", "inherit">>
        /\ IsSpawn(trace[k], "probe") => trace[k].stdio = <<"pipe", "pipe", "pipe">>

C1_Witness ==
    \E j, k \in Steps : IsSpawn(trace[j], "probe") /\ IsSpawn(trace[k], "child")

\* C2: while a spawned child's exit has not been observed, the supervisor writes
\* nothing to standard output (debug mode and stop() included).
C2_SilentWhileChildLive ==
    \A k \in Steps : trace[k].op = "stdout" => ~ChildLiveAt(k)

\* C3: a start() whose probe did not report Satisfied fails with a
\* dependency-check error and exit status 1 and spawns no child; as long as no
\* probe reported Satisfied no child exists and getStatus shows no pid.
C3_NoChildWithoutSatisfiedProbe ==
    /\ \A i \in Invocations :
          probe[i].settled = "rejected" =>
              /\ pc[i] = "failed"
              /\ Reported(i, DependencyErrors)
              /\ ~Reported(i, {EntryPointError})
              /\ exited = "exit" /\ exitCode = 1
              /\ ~SpawnedChild(i)
    /\ (\A i \in Invocations : probe[i].settled # "resolved") =>
          /\ children = <<>>
          /\ getStatus.pid = Null
          /\ ~getStatus.running

C3_Witness ==
    \E i \in Invocations : probe[i].settled = "rejected" /\ pc[i] = "failed"

\* C4 as stated: whenever the probe reports Satisfied and the entry point
\* exists, start() returns and getStatus then shows running with a pid.
C4_RunningWithPid ==
    [][\A i \in Invocations :
          (probe[i].settled = "pending" /\ probe'[i].settled = "resolved" /\ serverFile)
          => /\ pc'[i] = "returned"
             /\ getStatus'.running
             /\ getStatus'.pid \notin {Null, Undefined}]_vars

\* C4 amended: whenever the probe reports Satisfied, the entry point exists and
\* the OS creates the child process, start() returns and getStatus then shows
\* running with the pid of that child.
C4_RunningWithPidIfCreated ==
    [][\A i \in Invocations :
          (/\ probe[i].settled = "pending" /\ probe'[i].settled = "resolved"
           /\ serverFile
           /\ Len(children') = Len(children) + 1
           /\ children'[Len(children')].state = "live")
          => /\ pc'[i] = "returned"
             /\ process' = Len(children')
             /\ getStatus'.running
             /\ getStatus'.pid = children'[process'].pid
             /\ getStatus'.pid \notin {Null, Undefined}]_vars

C4_Witness ==
    \E i \in Invocations :
        /\ pc[i] = "returned" /\ trace[Len(trace)].op = "return"
        /\ getStatus.running /\ getStatus.pid \notin {Null, Undefined}

\* C5: the entry point is looked for only after the dependency check succeeded
\* and before any spawn of the child; a Satisfied probe with a missing entry
\* point fails with the entry-point error, not a dependency error, without a child.
C5_EntryPointCheckOrder ==
    /\ \A k \in Steps :
          /\ trace[k].op = "existsSync" =>
                \E j \in 1..(k - 1) : trace[j].op = "resolve" /\ trace[j].inv = trace[k].inv
          /\ IsSpawn(trace[k], "child") =>
                \E j \in 1..(k - 1) :
                    /\ trace[j].op = "existsSync" /\ trace[j].inv = trace[k].inv
                    /\ trace[j].code = 1
    /\ \A i \in Invocations :
          (probe[i].settled = "resolved" /\ ~serverFile) =>
              /\ pc[i] = "failed"
              /\ Reported(i, {EntryPointError})
              /\ ~Reported(i, DependencyErrors)
              /\ exited = "exit" /\ exitCode = 1
              /\ ~SpawnedChild(i)

C5_Witness ==
    \E i \in Invocations :
        probe[i].settled = "resolved" /\ ~serverFile /\ Reported(i, {EntryPointError})

\* C6: after a successful start(), stop() calls and signal deliveries send at
\* most one termination signal in all, and every stop() leaves the handle cleared.
C6_AtMostOneTermination ==
    /\ Cardinality({k \in Steps : trace[k].op = "kill"}) <= 1
    /\ \A h \in 1..Len(children) : children[h].sigterms <= 1
    /\ (\E k \in Steps : trace[k].op = "stop") => process = Null

C6_Witness ==
    /\ \E k \in Steps : trace[k].op = "return"
    /\ \E k \in Steps : trace[k].op = "kill" /\ trace[k].code = 1
    /\ \E h \in 1..Len(children) : children[h].sigterms = 1

\* stop() is entered in this step.
StopCalled ==
    \E k \in (Len(trace) + 1)..Len(trace') : trace'[k].op = "stop"

\* C7: a stop() called while getStatus does not report running (before any
\* start(), during the dependency check) sends no signal and leaves the process
\* handle, the start() invocations and the supervisor process unchanged.
C7_StopOutsideRunningIsNoOp ==
    [][(StopCalled /\ ~getStatus.running)
          => UNCHANGED <<process, children, pc, probe, exited, exitCode>>]_vars

\* C8: when the close observer fires with a non-zero exit code c, the supervisor
\* exits with status c in the same step and spawns nothing afterwards.
C8_MirrorsChildExitCode ==
    \A k \in Steps :
        (trace[k].op = "event" /\ trace[k].text = "child close"
            /\ trace[k].code \notin {0, NullCode}) =>
            /\ exited = "exit" /\ exitCode = trace[k].code
            /\ Len(trace) = k + 2 /\ trace[k + 2].op = "exit"
            /\ trace[k + 2].code = trace[k].code

C8_Witness ==
    \E k \in Steps :
        /\ trace[k].op = "event" /\ trace[k].text = "child close" /\ trace[k].code = 3
        /\ exitCode = 3

\* C9: once the close or error observer of the child the handle refers to has
\* fired, getStatus reports running = false for as long as the supervisor lives.
C9_NotRunningAfterObserver ==
    (Alive /\ process # Null /\ children[process].state \in {"closed", "errored"})
        => ~getStatus.running

\* C10: a signal delivered after a successful start() runs stop() in the same
\* step and the supervisor exits with status 0, whatever the child's exit code.
C10_SignalExitsZero ==
    \A k \in Steps :
        (IsSignal(trace[k]) /\ \E j \in 1..(k - 1) : trace[j].op = "return") =>
            /\ k < Len(trace) /\ trace[k + 1].op = "stop"
            /\ trace[Len(trace)].op = "exit" /\ trace[Len(trace)].code = 0
            /\ exited = "exit" /\ exitCode = 0

C10_Witness ==
    /\ \E k \in Steps : IsSignal(trace[k]) /\ trace[k].code = 1
    /\ \E h \in 1..Len(children) : children[h].state = "gone" /\ children[h].code = 3
    /\ exited = "exit" /\ exitCode = 0
\* C11: a signal delivered at any point after start() was called, the dependency
\* check included, runs stop() in the same step (the supervisor shuts down
\* through stop(), not through the platform's default).
C11_SignalHandledAfterStartCalled ==
    \A k \in Steps :
        (IsSignal(trace[k]) /\ \E j \in 1..(k - 1) : trace[j].op = "start") =>
            /\ k < Len(trace) /\ trace[k + 1].op = "stop"
            /\ exited = "exit" /\ exitCode = 0

\* C12: each signal has at most one listener registered, however many start()
\* invocations there are.
C12_SubscribedOnce ==
    \A s \in Signals : listeners[s] <= 1

\* C13: at most one spawned child has not exited, and while the supervisor lives
\* every live child is the one the handle refers to.
C13_AtMostOneLiveChild ==
    /\ Cardinality({h \in 1..Len(children) : children[h].state = "live"}) <= 1
    /\ Alive => \A h \in 1..Len(children) : children[h].state = "live" => process = h
\* C18: every dependency check eventually returns to start(): an invocation
\* waiting for its probe eventually stops waiting (or the supervisor has
\* terminated), also when the probe never exits.
C18_CheckEventuallyReturns ==
    \A i \in Invocations :
        (pc[i] = "awaitProbe") ~> (pc[i] # "awaitProbe" \/ ~Alive)

\* C19: once the supervisor process has terminated, by whatever path, no probe
\* it launched is still running: each probe's exit was observed before.
C19_ProbeReaped ==
    ~Alive => \A i \in Invocations : probe[i].state \notin {"running", "hung"}
StartCalled == \E k \in Steps : trace[k].op = "start"
StringOptions == {"pythonExecutable", "serverPath", "cwd"}

\* C14: as long as start() has not been called, getStatus reports running false
\* and pid null, and its options are the configuration of the instance: every
\* option the caller gave has the caller's value (an option left out or empty
\* has its default), every variable of the given env has the given value.
C14_StatusBeforeStart ==
    ~StartCalled =>
        LET status == getStatus IN
        /\ status.running = FALSE
        /\ status.pid = Null
        /\ \A f \in StringOptions :
              status.options[f] = IF given[f] \in {<<>>, <<"">>}
                                  THEN constructor(NoOptions, processEnv)[f]
                                  ELSE given[f][1]
        /\ status.options.debug = (given.debug = <<TRUE>>)
        /\ \A key \in DOMAIN Spread(given.env) :
              status.options.env[key] = given.env[1][key]

C14_Witness ==
    /\ ~StartCalled
    /\ given.pythonExecutable = <<"/opt/python">>
    /\ given.cwd = <<"/srv">>
    /\ given.debug = <<TRUE>>
    /\ given.env = <<[PATH |-> "over"]>>
    /\ getStatus.options.pythonExecutable = "/opt/python"

IsSettle(e, i) == e.op \in {"resolve", "reject"} /\ e.inv = i
IsProbeClose(e, i) == e.op = "event" /\ e.text = "probe close" /\ e.inv = i

\* C15: the 'close' event of a probe settles the check as Satisfied exactly when
\* the exit code is 0 and the captured standard output contains the sentinel;
\* in every other case the check is rejected.
C15_SatisfiedIffCodeZeroAndSentinel ==
    [][\A i \in Invocations, code \in ProbeCodes, output \in Texts, error \in Texts,
          created \in BOOLEAN :
         ProbeClose(i, code, output, error, created) =>
            LET satisfied == code = 0 /\ Includes(output, "DEPENDENCIES_OK") IN
            /\ probe'[i].settled = IF satisfied THEN "resolved" ELSE "rejected"
            /\ IsSettle(trace'[Len(trace) + 2], i)
            /\ trace'[Len(trace) + 2].op = IF satisfied THEN "resolve" ELSE "reject"]_vars

\* a direct check whose probe exited with code 0 without the sentinel was rejected
C15_Witness ==
    /\ pc[1] = "checked"
    /\ \E k \in Steps : k < Len(trace) /\ IsProbeClose(trace[k], 1)
                        /\ trace[k].code = 0 /\ trace[k + 1].op = "reject"

LaunchFailed(i) ==
    \E k \in Steps : IsSpawn(trace[k], "probe") /\ trace[k].inv = i /\ trace[k].code = 0

\* C16: a check whose probe could not be launched is rejected once, as "Failed
\* to run Python" (never as a failed dependency check, never resolved), and the
\* 'close' event that follows the 'error' event does not change that result.
C16_LaunchFailureIsRuntimeNotFound ==
    \A i \in Invocations :
        LaunchFailed(i) =>
            /\ \A k \in Steps : IsSettle(trace[k], i) =>
                  trace[k].op = "reject" /\ trace[k].text = "Failed to run Python"
            /\ Cardinality({k \in Steps : IsSettle(trace[k], i)}) <= 1
            /\ probe[i].state \in {"errored", "closed"} =>
                  /\ probe[i].settled = "rejected"
                  /\ \E k \in Steps : IsSettle(trace[k], i)

\* the 'close' event was delivered after the 'error' event
C16_Witness ==
    \E i \in Invocations, j, k \in Steps :
        /\ LaunchFailed(i)
        /\ j < k
        /\ trace[j].op = "event" /\ trace[j].text = "probe error" /\ trace[j].inv = i
        /\ IsProbeClose(trace[k], i) /\ trace[k].code = Enoent
        /\ pc[i] = "checked"

HintShown(tr, i) ==
    \E k \in 1..Len(tr) :
        tr[k].op = "stdout" /\ tr[k].inv = i
        /\ tr[k].text = "Try running: npm run install-python-deps"

\* C17: when the probe of a start() exits non-zero with the missing-dependency
\* marker on its standard output, start() shows the remediation hint (its
\* failure message contains the marker line), whatever the probe wrote to its
\* standard error.
C17_MissingDependencyNamed ==
    [][\A i \in Invocations, code \in ProbeCodes, output \in Texts, error \in Texts,
          created \in BOOLEAN :
         (/\ pc[i] = "awaitProbe"
          /\ code # 0
          /\ Includes(output, "MISSING_DEPENDENCY: X")
          /\ ProbeClose(i, code, output, error, created))
         => HintShown(trace', i)]_vars

\* C20: every spawn, of the probe and of the child, is given the same
\* environment: the variables of the process environment and of the given env,
\* each with the given value when the caller supplied one and with the process
\* value otherwise.
C20_EnvOverlay ==
    \A k \in Steps :
        trace[k].op = "spawn" =>
            LET env  == trace[k].env
                over == Spread(given.env)
            IN /\ DOMAIN env = DOMAIN processEnv \cup DOMAIN over
               /\ \A key \in DOMAIN env :
                     env[key] = IF key \in DOMAIN over THEN over[key]
                                ELSE processEnv[key]
               /\ \A j \in Steps : trace[j].op = "spawn" => trace[j].env = env

\* probe and child were spawned with one variable overridden and one inherited
C20_Witness ==
    /\ \E j, k \in Steps : IsSpawn(trace[j], "probe") /\ IsSpawn(trace[k], "child")
                           /\ trace[k].env = [PATH |-> "over", OPENAI_API_KEY |-> "proc"]
    /\ given.env = <<[PATH |-> "over"]>>
    /\ processEnv = [PATH |-> "proc", OPENAI_API_KEY |-> "proc"]
\* a point of no return: stop() was called, a start() failed, or an observer of
\* the child fired
IsStopped(e) ==
    \/ e.op = "stop"
    \/ e.op = "stderr"
    \/ e.op = "event" /\ e.text \in {"child close", "child error"}

\* C22: once stop() was called, a start() failed or the child's exit or error
\* was observed, no start() begins again and no process is spawned.
C22_NoWayBackFromStopped ==
    \A k \in Steps :
        IsStopped(trace[k]) =>
            \A m \in (k + 1)..Len(trace) : trace[m].op \notin {"start", "spawn"}

SpawnsOf(i, who) == {k \in Steps : IsSpawn(trace[k], who) /\ trace[k].inv = i}

\* C23: one start() launches at most one probe and at most one child, every
\* spawn belongs to a start() the caller made, and an invocation that reported a
\* failure or whose child's exit was observed spawns nothing afterwards.
C23_NoRetry ==
    \A i \in Invocations :
        /\ Cardinality(SpawnsOf(i, "probe")) <= 1
        /\ Cardinality(SpawnsOf(i, "child")) <= 1
        /\ \A k \in SpawnsOf(i, "probe") \cup SpawnsOf(i, "child") :
              \E j \in 1..(k - 1) : trace[j].op = "start" /\ trace[j].inv = i
        /\ \A k \in Steps :
              (IsStopped(trace[k]) /\ trace[k].op # "stop" /\ trace[k].inv = i) =>
                  \A m \in (k + 1)..Len(trace) :
                      ~(trace[m].op = "spawn" /\ trace[m].inv = i)

\* the first start()'s child has exited and the second start() has failed
C23_Witness ==
    /\ \E k \in Steps : IsChildEvent(trace[k], 1) /\ trace[k].inv = 1
    /\ Reported(2, DependencyErrors)
    /\ pc[2] = "failed"

\* C26: when the close observer fires without an exit code (the child was
\* terminated by a signal), the supervisor exits with a non-zero status.
C26_SignalledChildExitsNonZero ==
    \A k \in Steps :
        (trace[k].op = "event" /\ trace[k].text = "child close"
         /\ trace[k].code = NullCode)
        => (exited = "exit" /\ exitCode # 0)
IsOn(e, h, what) == e.op = "on" /\ e.h = h /\ e.text = what

\* C24: the child's error observer and close observer are registered right
\* after the spawn, in the same job: nothing is delivered and start() does not
\* return in between, so every child event finds its observer.
C24_ObserversBeforeYield ==
    \A k \in Steps :
        IsSpawn(trace[k], "child") =>
            LET h == trace[k].h IN
            /\ k + 2 <= Len(trace)
            /\ IsOn(trace[k + 1], h, "error")
            /\ IsOn(trace[k + 2], h, "close")
            /\ \A m \in Steps :
                  (IsChildEvent(trace[m], h) \/ (trace[m].op = "return" /\ trace[m].h = h))
                  => m > k + 2

\* a spawn failure and an exit of a child were both delivered to the observers
C24_Witness ==
    \E j, k \in Steps :
        /\ trace[j].op = "event" /\ trace[j].text = "child close"
        /\ trace[k].op = "event" /\ trace[k].text = "child error"
\* what a failed command of the CLI writes
CommandFailures ==
    DependencyErrors \cup
    {EntryPointError, "Failed to start Python server", "Failed to start server",
     "Python server exited with code", "Failed to install dependencies",
     "Python executable failed", "Python dependencies failed", "OpenAI API key failed"}

CommandFailed ==
    \E k \in Steps : trace[k].op = "stderr" /\ trace[k].text \in CommandFailures

\* C21: a command that has ended (process.exit, or nothing left to run) has
\* exit status 0 exactly when nothing failed: no failure of start, of the
\* installation or of any check of test was reported.
C21_ExitStatusTellsFailure ==
    (cli.command # "none" /\ exited = "exit") => (exitCode # 0 <=> CommandFailed)

StartFailure(i) ==
    \/ \E k \in Steps : trace[k].inv = i /\ trace[k].op = "reject"
    \/ \E k \in Steps : trace[k].inv = i /\ trace[k].op = "existsSync" /\ trace[k].code = 0
StartFailureReports ==
    DependencyErrors \cup
    {EntryPointError, "Failed to start Python server", "Failed to start server"}
ReportsOfStartFailure ==
    {k \in Steps : trace[k].op = "stderr" /\ trace[k].text \in StartFailureReports}
SpawnFailure ==
    \E k \in Steps : trace[k].op = "event" /\ trace[k].text = "child error"

\* C25: the start command reports a failure of start() (rejected dependency
\* check, missing entry point, spawn failure of the child) exactly once and
\* exits non-zero in the same step; a failed check or a missing entry point
\* leaves no child spawned.
C25_FailureReportedOnce ==
    /\ Cardinality(ReportsOfStartFailure) <= 1
    /\ (StartFailure(1) \/ SpawnFailure) =>
          /\ Cardinality(ReportsOfStartFailure) = 1
          /\ exited = "exit" /\ exitCode # 0
    /\ StartFailure(1) => ~SpawnedChild(1)

\* the child's spawn failed after start() had returned to the start command
C25_Witness ==
    /\ cli.command = "start"
    /\ SpawnFailure
    /\ pc[1] = "returned"

\* C27: in MCP mode (stdin is not a TTY) without --debug, every line the start
\* command writes to standard output comes after the spawn of the child.
C27_SilentUntilChildSpawned ==
    (cli.command = "start" /\ ~cli.stdinTTY /\ ~cli.debug) =>
        \A k \in Steps :
            trace[k].op = "stdout" =>
                \E j \in 1..(k - 1) : IsSpawn(trace[j], "child")

\* An event of an awaited child of the post-install script.
IsSetupEvent(e, what) == e.op = "event" /\ e.text \in {what \o " close", what \o " error"}

\* The last candidate was tried in vain: no Python executable was found.
NoPythonFound ==
    \E k \in Steps : /\ IsSetupEvent(trace[k], "detect")
                     /\ trace[k].h = Len(pythonExecutables)
                     /\ trace[k].code # 0

\* A pip installation exited non-zero (or was killed) or could not be launched.
PipFailed ==
    \E k \in Steps : /\ \/ IsSetupEvent(trace[k], "nl2sql pip")
                        \/ IsSetupEvent(trace[k], "server pip")
                     /\ trace[k].code # 0

\* C28: the post-install setup never fails because of Python.  When no Python
\* executable is found, or a pip installation exits non-zero or cannot be
\* launched, installPythonDependencies has written a warning and resolved (it
\* has not rejected), main() has completed and the process has not exited with
\* a non-zero status.
C28_PythonNeverFailsSetup ==
    (setup.pc # "none" /\ (NoPythonFound \/ PipFailed)) =>
        /\ \E k \in Steps : /\ trace[k].op = "stderr"
                            /\ trace[k].text \in
                                 {"Python not found. Please install Python 3.8+ manually.",
                                  "Failed to install Python dependencies"}
        /\ \E k \in Steps : /\ trace[k].op = "resolve"
                            /\ trace[k].text = "installPythonDependencies"
        /\ \A k \in Steps : trace[k].op # "reject"
        /\ setup.pc = "done"
        /\ ~(exited = "exit" /\ exitCode # 0)

\* The server's installation could not be launched and the script has ended.
C28_Witness ==
    /\ setup.pc = "done"
    /\ exited = "exit"
    /\ \E k \in Steps : /\ IsSetupEvent(trace[k], "server pip")
                        /\ trace[k].code = Enoent

\* C29: in installPythonDependencies, when the nl2sql requirements file exists
\* its installation is started and has finished (closed with code 0) before
\* the installation of the server's own requirements is started, and when the
\* nl2sql installation fails the server's installation is never started.
C29_Nl2sqlBeforeServer ==
    setup.pc # "none" =>
      /\ \A k \in Steps :
            (/\ trace[k].op = "spawn" /\ trace[k].text = "server pip"
             /\ \E e \in 1..(k - 1) : trace[e].op = "existsSync" /\ trace[e].code = 1)
            => \E i \in 1..(k - 1), j \in 1..(k - 1) :
                  /\ i < j
                  /\ trace[i].op = "spawn" /\ trace[i].text = "nl2sql pip"
                  /\ trace[j].op = "event" /\ trace[j].text = "nl2sql pip close"
                  /\ trace[j].code = 0
      /\ (\E j \in Steps : IsSetupEvent(trace[j], "nl2sql pip") /\ trace[j].code # 0)
            => \A k \in Steps : ~(trace[k].op = "spawn" /\ trace[k].text = "server pip")

\* The nl2sql installation succeeded and the server's installation was started.
C29_Witness ==
    /\ setup.pc = "awaitServer"
    /\ \E j \in Steps : /\ trace[j].op = "event" /\ trace[j].text = "nl2sql pip close"
                        /\ trace[j].code = 0

====
